---- MODULE Spec2Model ----
(***************************************************************************)
(* Client-side scripts of the blog: the theme controller                   *)
(* (public/js/theme-mode.js), the table-of-contents generator              *)
(* (public/js/toc.js) and the sidebar navigator (layouts/partials/         *)
(* sidebar.html).  One browser document, its local storage and the         *)
(* system's colour-scheme preference form the state; page loads, function  *)
(* calls and click events are the actions.  Every handler is an operator   *)
(* from the state it reads to the state it leaves, so that a click that    *)
(* runs two listeners is the composition of the two.                       *)
(***************************************************************************)
EXTENDS Naturals, Sequences, FiniteSets, TLC

\* ------------------------------------------------------------------ bounds
NumSubsections == 1     \* subsections under the one "post" section
NumElems == 2           \* elements that may carry the class isInitialToggle
MaxHeadings == 3        \* headings of a page whose content is not one of Pages
MaxRuns == 3            \* runs of the build workflow

\* ------------------------------------------------------------- vocabulary
Null == "<null>"        \* getItem / getAttribute of something absent
Light == "light"
Dark == "dark"
Modes == {Light, Dark}
Foreign == "blue"       \* a stored string that is neither mode
Key == "data-color-mode"
InitialToggle == "isInitialToggle"
Octicon == "octicon"
IconColor == "#f0f6fc"
Collapsed == "collapsed"
PaddingUnit == 12

\* what local storage may hold under Key before the first load
InitialStorage == {Null, "", Light, Dark, Foreign}

Elems == 1 .. NumElems
\* node 0 is the section toggle, 1 .. NumSubsections the subsection toggles
Nodes == 0 .. NumSubsections

\* headings of the content region: level, id, text
Heading(l, i, t) == [level |-> l, id |-> i, text |-> t]
Pages == { <<>>,
           <<Heading(1, "a", "A"), Heading(2, "b", "B")>>,
           <<Heading(2, "", "N"), Heading(3, "c", "C")>> }

\* every content region of at most MaxHeadings headings
Levels == 1 .. 6
Headings == { Heading(l, i, "T") : l \in Levels, i \in {"", "a"} }
HeadingSeqs == UNION { [1 .. k -> Headings] : k \in 0 .. MaxHeadings }

TypeError == "TypeError"

\* a listener registration: addEventListener(type, fn, capture)
Reg(t, f, c) == [type |-> t, fn |-> f, capture |-> c]
CloseTocReg == Reg("click", "closeToc", TRUE)
ToggleTocReg == Reg("click", "toggleToc", FALSE)

VARIABLES
    storage,    \* localStorage['data-color-mode']: Null when the key is absent
    sysDark,    \* matchMedia('(prefers-color-scheme: dark)').matches
    loaded,     \* the scripts of the current document have run
    tmpl,       \* the served page: [hasIcon, marked, headings, hasContent,
                \* hasList, hasDetails]
    doc,        \* the document: see Template
    last,       \* the operation that led to this state: [op, arg]; arg is the
                \* argument or the result of a call, the node of a toggle click,
                \* the control's display before a click on or outside it,
                \* whether a sidebar node was expanded before a reload
    chosen,     \* the mode the most recent switchTheme call chose, else Null
    storage0,   \* what local storage held before the first load
    sw,         \* the states before the most recent successive switchTheme calls
    tab2,       \* a second document of the site on the same local storage:
                \* [loaded, doc]
    wf          \* the runs of the build workflow: see WfIdle

vars == <<storage, sysDark, loaded, tmpl, doc, last, chosen, storage0, sw,
          tab2, wf>>

Op(o, a) == [op |-> o, arg |-> a]

\* ------------------------------------------------------------ the document
\* variant: the toggles are served with the class 'collapsed'
Template_Expanded(t) ==
    [ attr |-> Null,
      hasContent |-> t.hasContent,
      hasList |-> t.hasList,
      hasDetails |-> t.hasDetails,
      error |-> Null,
      classes |-> [e \in Elems |->
                      IF e \in t.marked THEN {InitialToggle, "btn"} ELSE {"btn"}],
      icon |-> [present |-> t.hasIcon, class |-> Octicon, color |-> Null],
      headings |-> t.headings,
      tocDisplay |-> "",
      tocList |-> <<>>,
      bodyListeners |-> <<>>,
      detailsListeners |-> <<>>,
      nodeDisplay |-> [n \in Nodes |-> ""],
      nodeClass |-> [n \in Nodes |-> {"toggle", Collapsed}] ]

\* The document as the browser builds it from the served markup, before any
\* script has run: no inline display on any element, no listener.  error
\* is the uncaught exception a script of the document has raised, if any.
Template(t) ==
    [ attr |-> Null,
      hasContent |-> t.hasContent,
      hasList |-> t.hasList,
      hasDetails |-> t.hasDetails,
      error |-> Null,
      classes |-> [e \in Elems |->
                      IF e \in t.marked THEN {InitialToggle, "btn"} ELSE {"btn"}],
      icon |-> [present |-> t.hasIcon, class |-> Octicon, color |-> Null],
      headings |-> t.headings,
      tocDisplay |-> "",
      tocList |-> <<>>,
      bodyListeners |-> <<>>,
      detailsListeners |-> <<>>,
      nodeDisplay |-> [n \in Nodes |-> ""],
      nodeClass |-> [n \in Nodes |-> {"toggle"}] ]

\* ---------------------------------------------------------- theme-mode.js
\* JavaScript's a || b on strings: the empty string and null are falsy.
Falsy(v) == v = Null \/ v = ""
OrElse(a, b) == IF Falsy(a) THEN b ELSE a

\* window.matchMedia('(prefers-color-scheme: dark)').matches ? 'dark' : 'light'
SystemMode(dark) == IF dark THEN Dark ELSE Light

\* variant: the system's mode wins over the stored one
currentTheme_SystemFirst(st, dark) == SystemMode(dark)

\* currentTheme(): the stored string if truthy, else the system's mode.
currentTheme(st, dark) == OrElse(st, SystemMode(dark))

\* variant: the localStorage.setItem is missing
setTheme_NoPersist(d, st, style) ==
    [ doc |-> [d EXCEPT !.attr = style,
                        !.classes = [e \in Elems |-> @[e] \ {InitialToggle}]],
      storage |-> st ]

\* variant: querySelector instead of querySelectorAll, the first element only
setTheme_StripFirst(d, st, style) ==
    [ doc |-> [d EXCEPT !.attr = style,
                        !.classes = [e \in Elems |->
                            IF e = 1 THEN @[e] \ {InitialToggle} ELSE @[e]]],
      storage |-> style ]

\* variant: the setAttribute on the root element is missing
setTheme_StorageOnly(d, st, style) ==
    [ doc |-> [d EXCEPT !.classes = [e \in Elems |-> @[e] \ {InitialToggle}]],
      storage |-> style ]

\* setTheme(style): the root attribute, the stored value, and the marker
\* class stripped from every element carrying it.  Yields the document and
\* the storage it leaves.
setTheme(d, st, style) ==
    [ doc |-> [d EXCEPT !.attr = style,
                        !.classes = [e \in Elems |-> @[e] \ {InitialToggle}]],
      storage |-> style ]

\* variant: the two branches exchanged
updateIcon_Inverted(d, style) ==
    IF ~d.icon.present THEN d
    ELSE IF style = Dark
         THEN [d EXCEPT !.icon.class = Null, !.icon.color = Null]
         ELSE [d EXCEPT !.icon.class = Octicon, !.icon.color = IconColor]

\* variant: no early return, setAttribute on a null element
updateIcon_NoGuard(d, style) ==
    IF ~d.icon.present THEN [d EXCEPT !.error = TypeError]
    ELSE IF style = Dark
         THEN [d EXCEPT !.icon.class = Octicon, !.icon.color = IconColor]
         ELSE [d EXCEPT !.icon.class = Null, !.icon.color = Null]

\* updateIcon(style): nothing without the icon element; class and colour set
\* for dark, both attributes removed otherwise.
updateIcon(d, style) ==
    IF ~d.icon.present THEN d
    ELSE IF style = Dark
         THEN [d EXCEPT !.icon.class = Octicon, !.icon.color = IconColor]
         ELSE [d EXCEPT !.icon.class = Null, !.icon.color = Null]

\* variant: a choice equal to the system's mode removes the key instead
switchTheme_Clear(d, st, dark) ==
    LET newStyle == IF currentTheme(st, dark) = Light THEN Dark ELSE Light
        r == setTheme(d, st, newStyle)
    IN  [ doc |-> updateIcon(r.doc, newStyle),
          storage |-> IF newStyle = SystemMode(dark) THEN Null ELSE r.storage,
          chosen |-> newStyle ]

\* variant: a current value that is no mode is applied as it is
switchTheme_Strict(d, st, dark) ==
    LET cur == currentTheme(st, dark)
        newStyle == IF cur = Light THEN Dark ELSE IF cur = Dark THEN Light ELSE cur
        r == setTheme(d, st, newStyle)
    IN  [ doc |-> updateIcon(r.doc, newStyle),
          storage |-> r.storage,
          chosen |-> newStyle ]

\* switchTheme(): the opposite of currentTheme() goes through setTheme, then
\* updateIcon.  chosen is the newStyle of the call.
switchTheme(d, st, dark) ==
    LET newStyle == IF currentTheme(st, dark) = Light THEN Dark ELSE Light
        r == setTheme(d, st, newStyle)
    IN  [ doc |-> updateIcon(r.doc, newStyle),
          storage |-> r.storage,
          chosen |-> newStyle ]

\* variant: the load ignores what is stored
themeOnLoad_SystemOnly(d, st, dark) == setTheme(d, st, SystemMode(dark))

\* the IIFE at the head of theme-mode.js: setTheme(currentTheme())
themeOnLoad(d, st, dark) == setTheme(d, st, currentTheme(st, dark))

\* ------------------------------------------------------- event listeners
RECURSIVE Without(_, _)
Without(ls, r) ==
    IF ls = <<>> THEN <<>>
    ELSE IF Head(ls) = r THEN Without(Tail(ls), r)
         ELSE <<Head(ls)>> \o Without(Tail(ls), r)

Has(ls, r) == \E i \in 1 .. Len(ls) : ls[i] = r

\* addEventListener: a registration with the same type, callback and capture
\* flag as an existing one is discarded.
addEventListener(ls, r) == IF Has(ls, r) THEN ls ELSE Append(ls, r)
\* removeEventListener: the matching registration, if any, is removed.
removeEventListener(ls, r) == Without(ls, r)

\* ------------------------------------------------------------------ toc.js
\* variant: the listener stays on body
closeToc_KeepListener(d) == [d EXCEPT !.tocDisplay = "none"]

\* variant: closing empties the list
closeToc_ClearsList(d) ==
    [d EXCEPT !.tocDisplay = "none",
              !.tocList = <<>>,
              !.bodyListeners = removeEventListener(@, CloseTocReg)]

\* closeToc(): hides the control and takes the listener off body.
closeToc(d) ==
    [d EXCEPT !.tocDisplay = "none",
              !.bodyListeners = removeEventListener(@, CloseTocReg)]

\* variant: the control opens without the listener on body
toggleToc_NoListener(d) ==
    LET isTocVisible == d.tocDisplay = "block"
    IN  [d EXCEPT !.tocDisplay = IF isTocVisible THEN "none" ELSE "block"]

\* toggleToc(event): flips the inline display between 'block' and 'none' and
\* adds or removes the capturing closeToc listener of body accordingly.
\* event.stopPropagation() ends the dispatch after the control's listeners.
toggleToc(d) ==
    LET isTocVisible == d.tocDisplay = "block"
    IN  [d EXCEPT !.tocDisplay = IF isTocVisible THEN "none" ELSE "block",
                  !.bodyListeners = IF isTocVisible
                                    THEN removeEventListener(@, CloseTocReg)
                                    ELSE addEventListener(@, CloseTocReg)]

\* variant: the indentation forgets the level
TocItem_FlatIndent(h) ==
    [ href |-> <<"#", h.id>>,
      innerText |-> h.text,
      paddingLeft |-> PaddingUnit ]

\* one entry of the list: the <a> element generateToc appends
TocItem(h) ==
    [ href |-> <<"#", h.id>>,
      innerText |-> h.text,
      paddingLeft |-> h.level * PaddingUnit ]

\* headings.forEach of generateToc(): one entry per heading, appended in
\* document order.
RECURSIVE AppendItems(_, _)
AppendItems(list, hs) ==
    IF hs = <<>> THEN list
    ELSE AppendItems(Append(list, TocItem(Head(hs))), Tail(hs))

\* an uncaught exception: the script that raised it stops there
Throw(d, e) == [d EXCEPT !.error = e]

\* generateToc() reads a property of null when the content region is missing,
\* and when the list element is missing and there is a heading to append.
generateTocThrows(d) ==
    \/ ~d.hasContent
    \/ d.headings # <<>> /\ ~d.hasList

\* variant: headings without an id are left out
generateToc_SkipNoId(d) ==
    IF generateTocThrows(d) THEN Throw(d, TypeError)
    ELSE [d EXCEPT !.tocList =
             AppendItems(@, SelectSeq(d.headings, LAMBDA h : h.id # ""))]

generateToc(d) ==
    IF generateTocThrows(d) THEN Throw(d, TypeError)
    ELSE [d EXCEPT !.tocList = AppendItems(@, d.headings)]

\* variant: nothing is installed when there is nothing to list
tocOnLoad_SkipEmpty(d) ==
    IF generateTocThrows(d) THEN generateToc(d)
    ELSE IF d.headings = <<>> THEN d
    ELSE IF ~d.hasDetails THEN Throw(generateToc(d), TypeError)
    ELSE [generateToc(d) EXCEPT
             !.detailsListeners = addEventListener(@, ToggleTocReg)]

\* the IIFE of toc.js: generateToc(); details.addEventListener('click', toggleToc)
tocOnLoad(d) ==
    IF generateTocThrows(d) THEN generateToc(d)
    ELSE IF ~d.hasDetails THEN Throw(generateToc(d), TypeError)
    ELSE [generateToc(d) EXCEPT
             !.detailsListeners = addEventListener(@, ToggleTocReg)]

\* ------------------------------------------------------------ sidebar.html
\* The nested list of node n is rendered when its inline display overrides
\* the stylesheet's '.directory-list .nested { display: none }'.
NestedVisible(d, n) == d.nodeDisplay[n] = "block"

\* variant: opening a node closes every other one
sidebarClick_Accordion(d, n) ==
    IF d.nodeDisplay[n] = "none"
    THEN [d EXCEPT !.nodeDisplay = [m \in Nodes |-> IF m = n THEN "block" ELSE "none"],
                   !.nodeClass[n] = @ \cup {Collapsed}]
    ELSE [d EXCEPT !.nodeDisplay[n] = "none",
                   !.nodeClass[n] = @ \ {Collapsed}]

\* variant: a toggle click also hides the table of contents
sidebarClick_ClosesToc(d, n) ==
    IF d.nodeDisplay[n] = "none"
    THEN [d EXCEPT !.nodeDisplay[n] = "block",
                   !.nodeClass[n] = @ \cup {Collapsed},
                   !.tocDisplay = "none"]
    ELSE [d EXCEPT !.nodeDisplay[n] = "none",
                   !.nodeClass[n] = @ \ {Collapsed},
                   !.tocDisplay = "none"]

\* variant: classList.toggle('collapsed') in both branches
sidebarClick_ToggleClass(d, n) ==
    LET flipped == IF Collapsed \in d.nodeClass[n]
                   THEN d.nodeClass[n] \ {Collapsed}
                   ELSE d.nodeClass[n] \cup {Collapsed}
    IN  IF d.nodeDisplay[n] = "none"
        THEN [d EXCEPT !.nodeDisplay[n] = "block", !.nodeClass[n] = flipped]
        ELSE [d EXCEPT !.nodeDisplay[n] = "none", !.nodeClass[n] = flipped]

\* the click listener of one .toggle: this.nextElementSibling is the node's
\* nested list; only an inline display of exactly "none" takes the first
\* branch.
sidebarClick(d, n) ==
    IF d.nodeDisplay[n] = "none"
    THEN [d EXCEPT !.nodeDisplay[n] = "block",
                   !.nodeClass[n] = @ \cup {Collapsed}]
    ELSE [d EXCEPT !.nodeDisplay[n] = "none",
                   !.nodeClass[n] = @ \ {Collapsed}]

\* ---------------------------------------------------------- click dispatch
Call(fn, d) ==
    CASE fn = "closeToc" -> closeToc(d)
      [] fn = "toggleToc" -> toggleToc(d)
      [] OTHER -> d

\* The listeners of one element for one phase run in registration order, from
\* the list as it was when the phase reached the element; one that has been
\* removed meanwhile does not run.
ListenersOf(d, el) == IF el = "body" THEN d.bodyListeners ELSE d.detailsListeners

RECURSIVE RunListeners(_, _, _, _)
RunListeners(ls, el, capture, d) ==
    IF ls = <<>> THEN d
    ELSE LET r == Head(ls)
             d1 == IF r.type = "click" /\ r.capture = capture
                      /\ Has(ListenersOf(d, el), r)
                   THEN Call(r.fn, d) ELSE d
         IN  RunListeners(Tail(ls), el, capture, d1)

\* capture phase of a click anywhere inside body: body is an ancestor of
\* every target, so its capturing listeners run before the target's.
CapturePhase(d) == RunListeners(d.bodyListeners, "body", TRUE, d)

\* A click on #toc-details or inside it: body's capturing listeners, then the
\* control's own; toggleToc stops the propagation, and body has no bubbling
\* listener in any case.
clickControl(d) ==
    LET d1 == CapturePhase(d)
    IN  RunListeners(d1.detailsListeners, "details", FALSE, d1)

\* A click on an element that has no listener of its own.
clickOutside(d) == CapturePhase(d)

\* A click on the toggle of sidebar node n: the span is inside body and
\* outside the TOC control; no ancestor of a toggle is a toggle.
clickToggle(d, n) == sidebarClick(CapturePhase(d), n)

\* everything the scripts do when the document is loaded
scriptsOnLoad(d, st, dark) ==
    LET r == themeOnLoad(d, st, dark)
    IN  [ doc |-> tocOnLoad(r.doc), storage |-> r.storage ]

\* ------------------------------------------------- .github/workflows
\* the steps of the job 'build', in the order of the file
Steps == << "checkout", "setup-node", "install", "setup-hugo", "build", "deploy" >>
Triggers == {"push", "pull_request"}

\* No run yet.  run counts the runs started, results holds the conclusion of
\* each step of the current run that has been reached, deployed the runs
\* whose deploy step has put the site on production.
WfIdle ==
    [ run |-> 0, trigger |-> "", results |-> <<>>, deployed |-> {} ]

Failed(results) == \E i \in 1 .. Len(results) : results[i].conclusion = "failure"

\* variant: every step carries 'if: always()'
Conclusion_Always(results, ok) == IF ok THEN "success" ELSE "failure"

\* No step of the file has an 'if' or 'continue-on-error': a step runs when
\* every step before it has succeeded and is skipped otherwise.
Conclusion(results, ok) ==
    IF Failed(results) THEN "skipped"
    ELSE IF ok THEN "success" ELSE "failure"

\* the next step of the current run concludes; a deploy step that succeeds
\* puts the run's build on production ('--prod')
wfStep(w, ok) ==
    LET step == Steps[Len(w.results) + 1]
        c == Conclusion(w.results, ok)
    IN  [w EXCEPT !.results = Append(@, [step |-> step, conclusion |-> c]),
                  !.deployed = IF step = "deploy" /\ c = "success"
                               THEN @ \cup {w.run} ELSE @]

WfFinished(w) == Len(w.results) = Len(Steps)

\* ----------------------------------------------------------------- actions
\* the pages served: every element the scripts look up is there, the icon
\* excepted; the marker class is on all of Elems or on none
Templates ==
    [ hasIcon : BOOLEAN, marked : {{}, Elems}, headings : Pages,
      hasContent : {TRUE}, hasList : {TRUE}, hasDetails : {TRUE} ]

\* the same pages with the marker class on any of Elems
ApiTemplates ==
    [ hasIcon : BOOLEAN, marked : SUBSET Elems, headings : Pages,
      hasContent : {TRUE}, hasList : {TRUE}, hasDetails : {TRUE} ]

\* pages with any content region of at most MaxHeadings headings
TocTemplates ==
    [ hasIcon : {TRUE}, marked : {{}}, headings : HeadingSeqs,
      hasContent : {TRUE}, hasList : {TRUE}, hasDetails : {TRUE} ]

\* pages that lack some of the elements toc.js looks up
MarkupTemplates ==
    [ hasIcon : {TRUE}, marked : {{}}, headings : Pages,
      hasContent : BOOLEAN, hasList : BOOLEAN, hasDetails : BOOLEAN ]

Snapshot == [attr |-> doc.attr, storage |-> storage]

InitFrom(T, S) ==
    /\ storage \in S
    /\ storage0 = storage
    /\ sysDark \in BOOLEAN
    /\ tmpl \in T
    /\ doc = Template(tmpl)
    /\ loaded = FALSE
    /\ last = Op("open", "")
    /\ chosen = Null
    /\ sw = <<>>
    /\ tab2 = [loaded |-> FALSE, doc |-> Template(tmpl)]
    /\ wf = WfIdle

Init == InitFrom(Templates, InitialStorage)

SomeExpanded(d) ==
    IF \E n \in Nodes : NestedVisible(d, n) THEN "expanded" ELSE "collapsed"

\* The browser (re)builds the document from the served markup; nothing of
\* the previous document survives, local storage does.
Navigate ==
    /\ loaded
    /\ doc' = Template(tmpl)
    /\ loaded' = FALSE
    /\ last' = Op("navigate", SomeExpanded(doc))
    /\ sw' = <<>>
    /\ UNCHANGED <<tab2, wf, storage, sysDark, tmpl, chosen, storage0>>

\* The scripts of the page run: the IIFEs of theme-mode.js and toc.js, and
\* the DOMContentLoaded handler that installs the sidebar listeners.
Load ==
    /\ ~loaded
    /\ LET r == scriptsOnLoad(doc, storage, sysDark)
       IN  doc' = r.doc /\ storage' = r.storage
    /\ loaded' = TRUE
    /\ last' = Op("load", IF last.op = "navigate" THEN last.arg ELSE "")
    /\ sw' = <<>>
    /\ UNCHANGED <<tab2, wf, sysDark, tmpl, chosen, storage0>>

\* The user toggles the theme.
SwitchTheme ==
    /\ loaded
    /\ LET r == switchTheme(doc, storage, sysDark)
       IN  doc' = r.doc /\ storage' = r.storage /\ chosen' = r.chosen
    /\ last' = Op("switchTheme", "")
    /\ sw' = IF Len(sw) < 2 THEN Append(sw, Snapshot)
             ELSE <<sw[2], Snapshot>>
    /\ UNCHANGED <<tab2, wf, sysDark, loaded, tmpl, storage0>>

\* The operating system's colour-scheme preference changes.
SysPrefChange ==
    /\ sysDark' = ~sysDark
    /\ last' = Op("sysPref", "")
    /\ sw' = <<>>
    /\ UNCHANGED <<tab2, wf, storage, loaded, tmpl, doc, chosen, storage0>>

ClickControl ==
    /\ loaded
    /\ doc.hasDetails
    /\ doc' = clickControl(doc)
    /\ last' = Op("clickControl", doc.tocDisplay)
    /\ sw' = <<>>
    /\ UNCHANGED <<tab2, wf, storage, sysDark, loaded, tmpl, chosen, storage0>>

ClickOutside ==
    /\ loaded
    /\ doc' = clickOutside(doc)
    /\ last' = Op("clickOutside", doc.tocDisplay)
    /\ sw' = <<>>
    /\ UNCHANGED <<tab2, wf, storage, sysDark, loaded, tmpl, chosen, storage0>>

ClickToggle(n) ==
    /\ loaded
    /\ doc' = clickToggle(doc, n)
    /\ last' = Op("clickToggle", n)
    /\ sw' = <<>>
    /\ UNCHANGED <<tab2, wf, storage, sysDark, loaded, tmpl, chosen, storage0>>

\* direct calls of the two global functions
SetThemeCall(m) ==
    /\ loaded
    /\ LET r == setTheme(doc, storage, m)
       IN  doc' = r.doc /\ storage' = r.storage
    /\ last' = Op("setTheme", m)
    /\ sw' = <<>>
    /\ UNCHANGED <<tab2, wf, sysDark, loaded, tmpl, chosen, storage0>>

\* An evaluation of currentTheme(): the one the load IIFE makes before its
\* setTheme, the one switchTheme makes, or a direct call.
CurrentThemeCall ==
    /\ last' = Op("currentTheme", currentTheme(storage, sysDark))
    /\ sw' = <<>>
    /\ UNCHANGED <<tab2, wf, storage, sysDark, loaded, tmpl, doc, chosen, storage0>>

Next ==
    \/ Navigate
    \/ Load
    \/ SwitchTheme
    \/ SysPrefChange
    \/ ClickControl
    \/ ClickOutside
    \/ \E n \in Nodes : ClickToggle(n)

\* what a user does with one document
Spec == Init /\ [][Next]_vars

NextApi ==
    \/ Navigate
    \/ Load
    \/ SwitchTheme
    \/ SysPrefChange
    \/ \E m \in Modes : SetThemeCall(m)
    \/ CurrentThemeCall

\* the theme controller alone, its global functions called directly as well
\* the second document: its scripts run on the shared storage
Tab2Load ==
    /\ ~tab2.loaded
    /\ LET r == scriptsOnLoad(tab2.doc, storage, sysDark)
       IN  tab2' = [loaded |-> TRUE, doc |-> r.doc] /\ storage' = r.storage
    /\ last' = Op("tab2.load", "")
    /\ sw' = <<>>
    /\ UNCHANGED <<sysDark, loaded, tmpl, doc, chosen, storage0, wf>>

\* switchTheme() in the second document; arg is the mode it displayed
Tab2SwitchTheme ==
    /\ tab2.loaded
    /\ LET r == switchTheme(tab2.doc, storage, sysDark)
       IN  tab2' = [tab2 EXCEPT !.doc = r.doc] /\ storage' = r.storage
    /\ last' = Op("tab2.switchTheme", tab2.doc.attr)
    /\ sw' = <<>>
    /\ UNCHANGED <<sysDark, loaded, tmpl, doc, chosen, storage0, wf>>

NextTabs ==
    \/ Navigate
    \/ Load
    \/ SwitchTheme
    \/ Tab2Load
    \/ Tab2SwitchTheme

TabTemplates ==
    [ hasIcon : BOOLEAN, marked : {{}}, headings : {<<>>},
      hasContent : {TRUE}, hasList : {TRUE}, hasDetails : {TRUE} ]

\* two documents of the site on one local storage
InitTabs == InitFrom(TabTemplates, {Null, Light, Dark})

SpecTabs == InitTabs /\ [][NextTabs]_vars

\* a push to main or a pull request against main starts a run
WfStart(t) ==
    /\ wf.run = 0 \/ WfFinished(wf)
    /\ wf.run < MaxRuns
    /\ wf' = [wf EXCEPT !.run = @ + 1, !.trigger = t, !.results = <<>>]
    /\ UNCHANGED <<storage, sysDark, loaded, tmpl, doc, last, chosen, storage0,
                   sw, tab2>>

WfStep(ok) ==
    /\ wf.run > 0
    /\ ~WfFinished(wf)
    /\ wf' = wfStep(wf, ok)
    /\ UNCHANGED <<storage, sysDark, loaded, tmpl, doc, last, chosen, storage0,
                   sw, tab2>>

NextWorkflow ==
    \/ \E t \in Triggers : WfStart(t)
    \/ \E ok \in BOOLEAN : WfStep(ok)

\* the build workflow alone
InitWorkflow ==
    InitFrom({t \in TabTemplates : t.hasIcon}, {Null}) /\ ~sysDark

SpecWorkflow == InitWorkflow /\ [][NextWorkflow]_vars

InitApi == InitFrom(ApiTemplates, InitialStorage)

SpecApi == InitApi /\ [][NextApi]_vars

NextToc ==
    \/ Navigate
    \/ Load
    \/ ClickControl
    \/ ClickOutside

\* the table of contents alone, over every bounded content region
InitToc == InitFrom(TocTemplates, {Null}) /\ ~sysDark

SpecToc == InitToc /\ [][NextToc]_vars

\* the table of contents on pages that lack elements
InitMarkup == InitFrom(MarkupTemplates, {Null, Dark})

SpecMarkup == InitMarkup /\ [][NextToc]_vars

\* ================================================================== claims

\* C1: a click on the toggle of a node whose nested list is hidden shows the
\* list and adds the class 'collapsed'; a click on the toggle of a node whose
\* list is shown hides it and removes the class.
C1_ClickFlipsNode ==
    [][ \A n \in Nodes :
          (last'.op = "clickToggle" /\ last'.arg = n) =>
             IF NestedVisible(doc, n)
             THEN ~NestedVisible(doc', n) /\ Collapsed \notin doc'.nodeClass[n]
             ELSE NestedVisible(doc', n) /\ Collapsed \in doc'.nodeClass[n] ]_vars

\* C2: a click on the TOC control leaves the control shown ('block') when it
\* was not shown before the click, and hidden ('none') when it was shown.
C2_ControlClickToggles ==
    last.op = "clickControl" =>
        doc.tocDisplay = (IF last.arg = "block" THEN "none" ELSE "block")

\* C3: a click outside the control while the TOC is open (on a sidebar toggle
\* or on an element without listeners) leaves the control hidden and body
\* without the closeToc listener; body never carries more than one closeToc
\* registration.
Registrations(ls, r) == Cardinality({i \in 1 .. Len(ls) : ls[i] = r})

C3_OutsideClickCloses ==
    /\ [][ (last'.op \in {"clickOutside", "clickToggle"}
             /\ doc.tocDisplay = "block") =>
                /\ doc'.tocDisplay = "none"
                /\ ~Has(doc'.bodyListeners, CloseTocReg) ]_vars
    /\ [](Registrations(doc.bodyListeners, CloseTocReg) <= 1)

\* an outside click has just closed a TOC that was open
C3_Witness ==
    /\ last = Op("clickOutside", "block")
    /\ doc.tocDisplay = "none"
    /\ doc.bodyListeners = <<>>

\* C4: once the scripts of a page have run, local storage holds 'light' or
\* 'dark' under the key.
C4_StoredIsMode == loaded => storage \in Modes

\* C5: after two successive switchTheme calls the root attribute and the
\* stored value are what they were before the first.
C5_TwoSwitchesRestore == Len(sw) = 2 => Snapshot = sw[1]

\* C6 as stated: currentTheme() returns the stored value whenever the key is
\* present, the system's mode otherwise.
C6_ReturnsStoredWhenPresent ==
    [][ last'.op = "currentTheme" =>
          last'.arg = (IF storage # Null THEN storage ELSE SystemMode(sysDark)) ]_vars

\* C6 amended: currentTheme() returns the stored value when the key holds a
\* non-empty string; when the key is absent or holds the empty string it
\* returns 'dark' if the system prefers dark and 'light' if not.  The call
\* changes neither local storage nor the document.
C6_ReturnsStoredOrSystem ==
    [][ last'.op = "currentTheme" =>
          /\ storage \notin {Null, ""} => last'.arg = storage
          /\ (storage \in {Null, ""} /\ sysDark) => last'.arg = Dark
          /\ (storage \in {Null, ""} /\ ~sysDark) => last'.arg = Light
          /\ storage' = storage
          /\ doc' = doc ]_vars

\* currentTheme() has answered from the system preference although the key
\* is present: it holds the empty string
C6_Witness ==
    /\ last = Op("currentTheme", Dark)
    /\ storage = ""
    /\ sysDark

\* C7: after setTheme(m), the stored value and the root attribute are m.
C7_SetThemeApplies ==
    last.op = "setTheme" => storage = last.arg /\ doc.attr = last.arg

\* setTheme('dark') on a document the user had switched to light
C7_Witness ==
    /\ last = Op("setTheme", Dark)
    /\ chosen = Light
    /\ storage = Dark
    /\ doc.attr = Dark

\* C8: once switchTheme has been called, every page load leaves the root
\* attribute at the mode the most recent switchTheme call chose.
C8_LoadRendersLastChoice ==
    (last.op = "load" /\ chosen # Null) => doc.attr = chosen

\* a load after a switch to the mode the system does not prefer
C8_Witness ==
    /\ last.op = "load"
    /\ chosen # Null
    /\ chosen # SystemMode(sysDark)
    /\ doc.attr = chosen

\* C9: with nothing stored at first and no switchTheme call so far, every
\* page load leaves the root attribute at the system's mode of that moment.
C9_LoadFollowsSystem ==
    (last.op = "load" /\ chosen = Null /\ storage0 = Null) =>
        doc.attr = SystemMode(sysDark)

\* C10: a key that is present stays present, and after a switchTheme call it
\* holds the mode the call chose.
C10_NeverDeleted ==
    /\ [][storage # Null => storage' # Null]_vars
    /\ [](last.op = "switchTheme" => storage = chosen)

\* switchTheme has overwritten a stored value with the opposite mode
C10_Witness ==
    /\ last.op = "switchTheme"
    /\ Len(sw) >= 1
    /\ sw[Len(sw)].storage \in Modes
    /\ storage # sw[Len(sw)].storage
    /\ storage = chosen

\* C11: switchTheme turns light into dark and dark into light, in the root
\* attribute and in storage; an icon that exists then has class 'octicon' and
\* colour '#f0f6fc' when the new mode is dark and neither attribute when it
\* is light.
C11_SwitchAppliesOpposite ==
    last.op = "switchTheme" =>
        LET before == sw[Len(sw)]
        IN  /\ before.attr = Light => doc.attr = Dark /\ storage = Dark
            /\ before.attr = Dark => doc.attr = Light /\ storage = Light
            /\ (doc.icon.present /\ doc.attr = Dark) =>
                  doc.icon.class = "octicon" /\ doc.icon.color = "#f0f6fc"
            /\ (doc.icon.present /\ doc.attr = Light) =>
                  doc.icon.class = Null /\ doc.icon.color = Null

\* a switch from dark to light on a page with the icon
C11_Witness ==
    /\ last.op = "switchTheme"
    /\ sw[Len(sw)].attr = Dark
    /\ doc.attr = Light
    /\ doc.icon.present
    /\ doc.icon.class = Null

\* C12: after the load the list holds one entry per heading, in document
\* order, with href '#' + id, the heading's text as label and level x 12 px
\* of indentation; a heading of a higher level than another is indented more.
C12_TocMirrorsHeadings ==
    last.op = "load" =>
        LET hs == tmpl.headings
            l == doc.tocList
        IN  /\ Len(l) = Len(hs)
            /\ \A i \in 1 .. Len(hs) :
                  /\ l[i].href = <<"#", hs[i].id>>
                  /\ l[i].innerText = hs[i].text
                  /\ l[i].paddingLeft = hs[i].level * 12
            /\ \A i, j \in 1 .. Len(hs) :
                  hs[i].level < hs[j].level => l[i].paddingLeft < l[j].paddingLeft

\* a page of three headings of strictly increasing level has been listed
C12_Witness ==
    /\ last.op = "load"
    /\ Len(tmpl.headings) = 3
    /\ tmpl.headings[1].level < tmpl.headings[2].level
    /\ tmpl.headings[2].level < tmpl.headings[3].level
    /\ Len(doc.tocList) = 3
    /\ doc.tocList[1].paddingLeft < doc.tocList[2].paddingLeft
    /\ doc.tocList[2].paddingLeft < doc.tocList[3].paddingLeft

\* C13: a heading without an id has its entry, at its place, with href '#';
\* no id is given to it, and the other headings keep their entries.
C13_NoIdStillListed ==
    last.op = "load" =>
        \A i \in 1 .. Len(tmpl.headings) :
            tmpl.headings[i].id = "" =>
               /\ Len(doc.tocList) = Len(tmpl.headings)
               /\ doc.tocList[i].href = <<"#", "">>
               /\ doc.tocList[i].innerText = tmpl.headings[i].text
               /\ doc.tocList[i].paddingLeft = tmpl.headings[i].level * 12
               /\ doc.headings[i].id = ""
               /\ \A j \in 1 .. Len(tmpl.headings) :
                     j # i => doc.tocList[j].href = <<"#", tmpl.headings[j].id>>

\* a heading without an id between two that have one
C13_Witness ==
    /\ last.op = "load"
    /\ Len(tmpl.headings) = 3
    /\ tmpl.headings[1].id # ""
    /\ tmpl.headings[2].id = ""
    /\ tmpl.headings[3].id # ""
    /\ Len(doc.tocList) = 3

\* C14: body carries the capturing closeToc listener exactly when the
\* control's inline display is 'block'.
C14_ListenerIffOpen ==
    Has(doc.bodyListeners, CloseTocReg) <=> doc.tocDisplay = "block"

\* the control has been opened and body listens
C14_Witness ==
    /\ last.op = "clickControl"
    /\ doc.tocDisplay = "block"
    /\ doc.bodyListeners = <<CloseTocReg>>

\* C15: after every page load no nested list is displayed, no list has an
\* inline display and no toggle carries 'collapsed'.
C15_LoadCollapsesAll ==
    last.op = "load" =>
        \A n \in Nodes :
            /\ ~NestedVisible(doc, n)
            /\ doc.nodeDisplay[n] = ""
            /\ Collapsed \notin doc.nodeClass[n]

\* a reload of a document in which a node was expanded
C15_Witness ==
    /\ last = Op("load", "expanded")
    /\ \A n \in Nodes : ~NestedVisible(doc, n)

\* C16: a click on the toggle of node n leaves the display and the class of
\* every other node as they were; within one document the display or class
\* of a node changes only by a click on its own toggle.
C16_ClickTouchesOwnNode ==
    [][ \A m \in Nodes :
          /\ (last'.op = "clickToggle" /\ last'.arg # m) =>
                /\ doc'.nodeDisplay[m] = doc.nodeDisplay[m]
                /\ doc'.nodeClass[m] = doc.nodeClass[m]
          /\ (last'.op # "navigate"
                /\ (doc'.nodeDisplay[m] # doc.nodeDisplay[m]
                    \/ doc'.nodeClass[m] # doc.nodeClass[m])) =>
                last' = Op("clickToggle", m) ]_vars

\* a subsection has been opened by its toggle while the section that holds
\* it was never touched
C16_Witness ==
    /\ last = Op("clickToggle", 1)
    /\ NestedVisible(doc, 1)
    /\ doc.nodeDisplay[0] = ""
    /\ Collapsed \notin doc.nodeClass[0]

\* C17: the load of a page that lacks the content region, the list element
\* or the control raises no error.
C17_LoadNeverThrows == last.op = "load" => doc.error = Null

\* C18: without the icon element switchTheme changes the root attribute and
\* the stored value to the mode it chose, raises no error and leaves the
\* icon record as served.
C18_SwitchWithoutIcon ==
    (last.op = "switchTheme" /\ ~tmpl.hasIcon) =>
        /\ doc.attr = chosen
        /\ storage = chosen
        /\ doc.attr # sw[Len(sw)].attr
        /\ doc.error = Null
        /\ doc.icon = [present |-> FALSE, class |-> Octicon, color |-> Null]

\* a switch to dark on a page without the icon
C18_Witness ==
    /\ last.op = "switchTheme"
    /\ ~tmpl.hasIcon
    /\ sw[Len(sw)].attr = Light
    /\ doc.attr = Dark

\* C19: on a page without headings the list stays empty, no error is raised
\* and the control has its click listener: a click on the control that is not
\* shown shows it, an outside click on the shown control hides it.
C19_EmptyTocStillToggles ==
    (loaded /\ tmpl.headings = <<>>) =>
        /\ doc.tocList = <<>>
        /\ doc.error = Null
        /\ Has(doc.detailsListeners, ToggleTocReg)
        /\ (last.op = "clickControl" /\ last.arg # "block") =>
              doc.tocDisplay = "block"
        /\ (last.op = "clickOutside" /\ last.arg = "block") =>
              doc.tocDisplay = "none"

\* the control of an empty list has been opened
C19_Witness ==
    /\ tmpl.headings = <<>>
    /\ doc.tocList = <<>>
    /\ last = Op("clickControl", "")
    /\ doc.tocDisplay = "block"

\* C20: after setTheme, called by the load, by switchTheme or directly, no
\* element carries 'isInitialToggle' and every element has its other class.
C20_MarkerStripped ==
    last.op \in {"load", "setTheme", "switchTheme"} =>
        \A e \in Elems : doc.classes[e] = {"btn"}

\* the load of a page on which every element carried the marker
C20_Witness ==
    /\ last.op = "load"
    /\ tmpl.marked = Elems
    /\ Cardinality(tmpl.marked) >= 2
    /\ \A e \in Elems : InitialToggle \notin doc.classes[e]

\* what each script owns of the document
ThemePart(d) == <<d.attr, d.classes, d.icon>>
TocPart(d) == <<d.tocDisplay, d.tocList, d.bodyListeners, d.detailsListeners>>
SidebarPart(d) == <<d.nodeDisplay, d.nodeClass>>

\* C21: setTheme, switchTheme and the theme's load script leave the TOC and
\* the sidebar as they are; the sidebar's click listener leaves the theme,
\* the storage and the TOC as they are; toggleToc, closeToc and generateToc
\* leave the theme, the storage and the sidebar as they are.
C21_ScriptsShareNoState ==
    /\ [][ /\ last'.op \in {"switchTheme", "setTheme"} =>
                /\ TocPart(doc') = TocPart(doc)
                /\ SidebarPart(doc') = SidebarPart(doc)
           /\ last'.op = "clickToggle" =>
                /\ ThemePart(doc') = ThemePart(doc)
                /\ storage' = storage
           /\ last'.op \in {"clickControl", "clickOutside"} =>
                /\ ThemePart(doc') = ThemePart(doc)
                /\ SidebarPart(doc') = SidebarPart(doc)
                /\ storage' = storage ]_vars
    /\ [] /\ \A n \in Nodes :
                LET d1 == CapturePhase(doc)
                IN  /\ TocPart(sidebarClick(d1, n)) = TocPart(d1)
                    /\ ThemePart(sidebarClick(d1, n)) = ThemePart(d1)
          /\ \A m \in Modes :
                /\ TocPart(setTheme(doc, storage, m).doc) = TocPart(doc)
                /\ SidebarPart(setTheme(doc, storage, m).doc) = SidebarPart(doc)
          /\ TocPart(themeOnLoad(doc, storage, sysDark).doc) = TocPart(doc)
          /\ SidebarPart(themeOnLoad(doc, storage, sysDark).doc) = SidebarPart(doc)
          /\ ThemePart(generateToc(doc)) = ThemePart(doc)
          /\ SidebarPart(generateToc(doc)) = SidebarPart(doc)

\* the theme has been switched while the TOC was open and a node expanded
C21_Witness ==
    /\ last.op = "switchTheme"
    /\ doc.tocDisplay = "block"
    /\ \E n \in Nodes : NestedVisible(doc, n)
    /\ doc.attr = Dark

\* C22: the toggle of a node carries 'collapsed' exactly when the node's
\* nested list is displayed.
C22_ClassIffDisplayed ==
    \A n \in Nodes : Collapsed \in doc.nodeClass[n] <=> NestedVisible(doc, n)

\* the section has been opened by a click
C22_Witness ==
    /\ last = Op("clickToggle", 0)
    /\ NestedVisible(doc, 0)
    /\ Collapsed \in doc.nodeClass[0]

\* C23: a click on the control runs toggleToc and nothing else.
C23_ControlClickRunsToggleOnly ==
    [][ last'.op = "clickControl" => doc' = toggleToc(doc) ]_vars

\* C24: once the scripts of the document have run, the root attribute equals
\* the stored value.
C24_AttrIsStored == loaded => doc.attr = storage

\* two switches and a direct call later the two still agree
C24_Witness ==
    /\ last = Op("setTheme", Dark)
    /\ chosen = Dark
    /\ doc.attr = Dark
    /\ storage = Dark

\* C25: with two documents on one storage, a switchTheme call in either
\* turns a light document dark and a dark document light.
C25_SwitchFlipsCaller ==
    /\ last.op = "switchTheme" =>
          /\ sw[Len(sw)].attr = Light => doc.attr = Dark
          /\ sw[Len(sw)].attr = Dark => doc.attr = Light
    /\ last.op = "tab2.switchTheme" =>
          /\ last.arg = Light => tab2.doc.attr = Dark
          /\ last.arg = Dark => tab2.doc.attr = Light

\* C26: once the scripts have run, an icon that exists has colour '#f0f6fc'
\* and class 'octicon' exactly when the root attribute is 'dark'.
C26_IconFollowsMode ==
    (loaded /\ doc.icon.present) =>
        ((doc.icon.color = "#f0f6fc" /\ doc.icon.class = "octicon")
            <=> doc.attr = Dark)

\* C27: a switchTheme call on any stored value but 'light' chooses 'light',
\* on 'light' it chooses 'dark'; after the first call the stored value is a
\* mode in every state, and so is the root attribute of a loaded document.
C27_SwitchNormalises ==
    /\ last.op = "switchTheme" =>
          IF sw[Len(sw)].storage = Light
          THEN storage = Dark /\ doc.attr = Dark
          ELSE storage = Light /\ doc.attr = Light
    /\ chosen # Null =>
          /\ storage \in Modes
          /\ loaded => doc.attr \in Modes

\* a stored 'blue' has been switched to 'light'
C27_Witness ==
    /\ last.op = "switchTheme"
    /\ sw[Len(sw)].storage = Foreign
    /\ sw[Len(sw)].attr = Foreign
    /\ storage = Light
    /\ doc.attr = Light

\* C28: no click on the control or outside it changes the list, which holds
\* one entry per heading of the page as long as the document lives.
C28_ListBuiltOnce ==
    /\ [][ last'.op \in {"clickControl", "clickOutside"} =>
              doc'.tocList = doc.tocList ]_vars
    /\ [](loaded =>
            /\ Len(doc.tocList) = Len(tmpl.headings)
            /\ \A i \in 1 .. Len(tmpl.headings) :
                  doc.tocList[i].href = <<"#", tmpl.headings[i].id>>)

\* a list of three entries after the TOC has been opened and closed
C28_Witness ==
    /\ last = Op("clickOutside", "block")
    /\ Len(tmpl.headings) = 3
    /\ Len(doc.tocList) = 3
    /\ doc.tocDisplay = "none"

\* C29: the steps of a run conclude in the order checkout, Node setup,
\* install, Hugo setup, build, deploy; the deploy step runs only after a
\* successful build; a run with a failed step is not deployed; a finished run
\* started by a push to main whose steps all succeeded is deployed.
AllSucceeded(results) ==
    \A i \in 1 .. Len(results) : results[i].conclusion = "success"

C29_DeployAfterBuild ==
    LET order == << "checkout", "setup-node", "install", "setup-hugo",
                    "build", "deploy" >>
        r == wf.results
    IN  /\ Len(r) <= 6
        /\ \A i \in 1 .. Len(r) : r[i].step = order[i]
        /\ (Len(r) = 6 /\ r[6].conclusion # "skipped") =>
              r[5].conclusion = "success"
        /\ Failed(r) => wf.run \notin wf.deployed
        /\ wf.run \in wf.deployed =>
              Len(r) = 6 /\ r[5].conclusion = "success"
        /\ (Len(r) = 6 /\ wf.trigger = "push" /\ AllSucceeded(r)) =>
              wf.run \in wf.deployed

\* a run deployed, and a later run whose build failed and that did not
C29_Witness ==
    /\ wf.run = 2
    /\ 1 \in wf.deployed
    /\ Len(wf.results) = 6
    /\ wf.results[5].conclusion = "failure"
    /\ wf.results[6].conclusion = "skipped"
    /\ 2 \notin wf.deployed

====
